---- MODULE Spec2Model ----
(***************************************************************************)
(* PCOS Care AI (src/bot.py): the weighted scoring engine (PCOSScorer) and *)
(* the per-user conversation controller built on the global user_data map. *)
(*                                                                         *)
(* A Python str is a sequence of one-character strings, so that int() and  *)
(* str() are computed and not assumed.  A dict is a function whose DOMAIN  *)
(* is the set of keys present.  A percentage (a float rounded to one       *)
(* decimal place) is the integer number of tenths.                         *)
(***************************************************************************)
EXTENDS Integers, Sequences, FiniteSets, TLC

\* ------------------------------------------------------------------------
\* String literals of the source
\* ------------------------------------------------------------------------
sRegular == <<"R", "e", "g", "u", "l", "a", "r">>
sIrregular == <<"I", "r", "r", "e", "g", "u", "l", "a", "r">>
sNone == <<"N", "o", "n", "e">>
sLessThan21 == <<"L", "e", "s", "s", " ", "t", "h", "a", "n", " ", "2", "1">>
sNormal2135 == <<"2", "1", "-", "3", "5", " ", "(", "N", "o", "r", "m", "a", "l", ")">>
sMoreThan35 == <<"M", "o", "r", "e", " ", "t", "h", "a", "n", " ", "3", "5">>
sVariableUnsure == <<"V", "a", "r", "i", "a", "b", "l", "e", "/", "U", "n", "s", "u", "r", "e">>
sAcne == <<"A", "c", "n", "e">>
sFacialHair == <<"F", "a", "c", "i", "a", "l", " ", "H", "a", "i", "r">>
sWeightGain == <<"W", "e", "i", "g", "h", "t", " ", "G", "a", "i", "n">>
sHairThinning == <<"H", "a", "i", "r", " ", "T", "h", "i", "n", "n", "i", "n", "g">>
sNoneOfThese == <<"N", "o", "n", "e", " ", "o", "f", " ", "t", "h", "e", "s", "e">>
sDone == <<"D", "o", "n", "e">>
s0 == <<"0">>
s20 == <<"2", "0">>
s28 == <<"2", "8">>
s35 == <<"3", "5">>
s40 == <<"4", "0">>

\* ------------------------------------------------------------------------
\* Python built-ins used by the source: int(str), str(int), dict.get, min
\* ------------------------------------------------------------------------
DigitVal ==
  ("0" :> 0) @@ ("1" :> 1) @@ ("2" :> 2) @@ ("3" :> 3) @@ ("4" :> 4) @@
  ("5" :> 5) @@ ("6" :> 6) @@ ("7" :> 7) @@ ("8" :> 8) @@ ("9" :> 9)

DigitChr ==
  (0 :> "0") @@ (1 :> "1") @@ (2 :> "2") @@ (3 :> "3") @@ (4 :> "4") @@
  (5 :> "5") @@ (6 :> "6") @@ (7 :> "7") @@ (8 :> "8") @@ (9 :> "9")

RECURSIVE LStrip(_)
LStrip(s) ==
  IF s # <<>> /\ Head(s) = " " THEN LStrip(Tail(s)) ELSE s

RECURSIVE RStrip(_)
RStrip(s) ==
  IF s # <<>> /\ s[Len(s)] = " " THEN RStrip(SubSeq(s, 1, Len(s) - 1)) ELSE s

Strip(s) ==
  RStrip(LStrip(s))

\* the digits of a literal once blanks and one leading sign are removed
IntBody(s) ==
  LET t == Strip(s)
  IN IF t # <<>> /\ Head(t) \in {"+", "-"} THEN Tail(t) ELSE t

\* int(s) returns (TRUE) or raises ValueError (FALSE); the texts of the
\* model hold no underscore and no non-ASCII digit or blank
CanInt(s) ==
  LET b == IntBody(s)
  IN b # <<>> /\ \A i \in 1..Len(b) : b[i] \in DOMAIN DigitVal

RECURSIVE DigitsToNat(_)
DigitsToNat(b) ==
  IF b = <<>> THEN 0
  ELSE 10 * DigitsToNat(SubSeq(b, 1, Len(b) - 1)) + DigitVal[b[Len(b)]]

int(s) ==
  LET t == Strip(s)
      n == DigitsToNat(IntBody(s))
  IN IF t # <<>> /\ Head(t) = "-" THEN 0 - n ELSE n

RECURSIVE NatToDigits(_)
NatToDigits(n) ==
  IF n < 10 THEN <<DigitChr[n]>>
  ELSE Append(NatToDigits(n \div 10), DigitChr[n % 10])

str(n) ==
  IF n < 0 THEN <<"-">> \o NatToDigits(0 - n) ELSE NatToDigits(n)

Get(d, k, default) ==
  IF k \in DOMAIN d THEN d[k] ELSE default

\* d[k] = v on a dict
Put(d, k, v) ==
  (k :> v) @@ d

EmptyDict ==
  [k \in {} |-> <<>>]

\* ------------------------------------------------------------------------
\* Scoring engine
\* ------------------------------------------------------------------------
WEIGHTS ==
  [cycle_regularity |-> (sRegular :> 0) @@ (sIrregular :> 35) @@ (sNone :> 40),
   cycle_length |-> [normal |-> 0, short |-> 15, long |-> 25, none |-> 30],
   symptoms |-> (sAcne :> 8) @@ (sFacialHair :> 12) @@ (sWeightGain :> 10)
                @@ (sHairThinning :> 10)]

calculate_cycle_length_weight_unforced(length, regularity) ==
  IF ~CanInt(length) THEN 0
  ELSE LET days == int(length)
       IN IF 21 <= days /\ days <= 35 THEN WEIGHTS.cycle_length.normal
          ELSE IF days < 21 THEN WEIGHTS.cycle_length.short
          ELSE WEIGHTS.cycle_length.long

calculate_cycle_length_weight(length, regularity) ==
  IF regularity = sNone THEN WEIGHTS.cycle_length.none
  ELSE IF ~CanInt(length) THEN 0
  ELSE LET days == int(length)
       IN IF 21 <= days /\ days <= 35 THEN WEIGHTS.cycle_length.normal
          ELSE IF days < 21 THEN WEIGHTS.cycle_length.short
          ELSE WEIGHTS.cycle_length.long

\* counts the first symptom of the list only
SymptomsScore_first(symptoms) ==
  IF symptoms = <<>> THEN 0
  ELSE Get(WEIGHTS.symptoms, Head(symptoms), 0)

\* the loop "for symptom in symptoms: score += ..." over a list
RECURSIVE SymptomsScore(_)
SymptomsScore(symptoms) ==
  IF symptoms = <<>> THEN 0
  ELSE Get(WEIGHTS.symptoms, Head(symptoms), 0) + SymptomsScore(Tail(symptoms))

max_score == 100

\* tenths in one unit of a percentage rounded to one decimal place
Tenths == 10

\* round(num / den, 1) as a number of tenths, ties to even
Round1(num, den) ==
  LET q == (num * Tenths) \div den
      r == (num * Tenths) % den
  IN IF 2 * r > den \/ (2 * r = den /\ q % 2 = 1) THEN q + 1 ELSE q

\* the raw sum of the three weights, before the conversion to a percentage
RawScore(data) ==
  LET regularity == Get(data, "cycle_regularity", sRegular)
      cycle_length == Get(data, "cycle_length", s28)
      symptoms == Get(data, "symptoms", <<>>)
  IN Get(WEIGHTS.cycle_regularity, regularity, 0)
     + calculate_cycle_length_weight(cycle_length, regularity)
     + SymptomsScore(symptoms)

calculate_total_score_unclamped(data) ==
  Round1(RawScore(data) * 100, max_score)

\* percentage = min((score / max_score) * 100, 100); round(percentage, 1)
calculate_total_score(data) ==
  LET score == RawScore(data)
  IN IF score * 100 >= 100 * max_score THEN 100 * Tenths
     ELSE Round1(score * 100, max_score)

get_risk_category_open(percentage) ==
  IF percentage < 30 * Tenths THEN "Low"
  ELSE IF percentage < 70 * Tenths THEN "Medium"
  ELSE "High"

get_risk_category(percentage) ==
  IF percentage < 30 * Tenths THEN "Low"
  ELSE IF percentage <= 70 * Tenths THEN "Medium"
  ELSE "High"

\* ------------------------------------------------------------------------
\* Conversation controller.  A handler execution is a frame: the message it
\* handles (op, uid, text), its position pc (the source line of its next
\* access to user_data), the replies it has sent and the exception that
\* ended it, if any.  Each step operator maps (user_data, frame) to the
\* pair after one access to user_data and the local code that follows it.
\* ------------------------------------------------------------------------
Msg(kind) ==
  [kind |-> kind, arg |-> <<>>, percentage |-> 0 - 1, category |-> "",
   data |-> EmptyDict]

Send(f, m) ==
  [f EXCEPT !.sent = Append(@, m)]

Goto(f, pc) ==
  [f EXCEPT !.pc = pc]

Return(f) ==
  [f EXCEPT !.pc = "done"]

Raise(f, e) ==
  [f EXCEPT !.pc = "done", !.err = e]

IdleFrame ==
  [pc |-> "idle", op |-> "", uid |-> 0, text |-> <<>>, sent |-> <<>>, err |-> ""]

EntryPc ==
  [start |-> "L202", assess |-> "L347", text |-> "L365"]

NewFrame(op, uid, text) ==
  [pc |-> EntryPc[op], op |-> op, uid |-> uid, text |-> text, sent |-> <<>>,
   err |-> ""]

\* /start
start(ud, f) ==
  [ud |-> Put(ud, f.uid, EmptyDict), f |-> Return(Send(f, Msg("Welcome")))]

start_assessment_keeps(ud, f) ==
  [ud |-> IF f.uid \in DOMAIN ud
          THEN [ud EXCEPT ![f.uid] = Put(@, "stage", "cycle_regularity")]
          ELSE Put(ud, f.uid, [stage |-> "cycle_regularity"]),
   f |-> Return(Send(f, Msg("Question1")))]

\* /assess
start_assessment(ud, f) ==
  [ud |-> Put(ud, f.uid, [stage |-> "cycle_regularity"]),
   f |-> Return(Send(f, Msg("Question1")))]

handle_responses_L365_creates(ud, f) ==
  IF f.uid \notin DOMAIN ud
  THEN [ud |-> Put(ud, f.uid, EmptyDict),
        f |-> Return(Send(f, Msg("PleaseStartWithAssess")))]
  ELSE [ud |-> ud, f |-> Goto(f, "L369")]

handle_responses_L365(ud, f) ==
  IF f.uid \notin DOMAIN ud
  THEN [ud |-> ud, f |-> Return(Send(f, Msg("PleaseStartWithAssess")))]
  ELSE [ud |-> ud, f |-> Goto(f, "L369")]

\* a record with no stage is handled as one at stage symptoms
handle_responses_L369_else_symptoms(ud, f) ==
  LET stage == Get(ud[f.uid], "stage", "")
  IN IF stage = "cycle_regularity"
     THEN IF f.text \notin {sRegular, sIrregular, sNone}
          THEN [ud |-> ud,
                f |-> Return(Send(f, Msg("PleaseSelectFromOptionsProvided")))]
          ELSE [ud |-> ud, f |-> Goto(f, "L388")]
     ELSE IF stage = "cycle_length" THEN [ud |-> ud, f |-> Goto(f, "L419")]
     ELSE [ud |-> ud, f |-> Goto(f, "L455")]

\* the dispatch on the stage, with the local validation of
\* handle_cycle_regularity that precedes its first write
handle_responses_L369(ud, f) ==
  LET stage == Get(ud[f.uid], "stage", "")
  IN IF stage = "cycle_regularity"
     THEN IF f.text \notin {sRegular, sIrregular, sNone}
          THEN [ud |-> ud,
                f |-> Return(Send(f, Msg("PleaseSelectFromOptionsProvided")))]
          ELSE [ud |-> ud, f |-> Goto(f, "L388")]
     ELSE IF stage = "cycle_length" THEN [ud |-> ud, f |-> Goto(f, "L419")]
     ELSE IF stage = "symptoms" THEN [ud |-> ud, f |-> Goto(f, "L455")]
     ELSE [ud |-> ud, f |-> Return(f)]

handle_cycle_regularity_L388(ud, f) ==
  [ud |-> [ud EXCEPT ![f.uid] = Put(@, "cycle_regularity", f.text)],
   f |-> Goto(f, "L389")]

handle_cycle_regularity_L389_skips(ud, f) ==
  [ud |-> [ud EXCEPT ![f.uid] = Put(@, "stage", "symptoms")],
   f |-> IF f.text = sNone THEN Goto(f, "L392")
         ELSE Return(Send(f, Msg("Question3")))]

handle_cycle_regularity_L389(ud, f) ==
  [ud |-> [ud EXCEPT ![f.uid] = Put(@, "stage", "cycle_length")],
   f |-> IF f.text = sNone THEN Goto(f, "L392")
         ELSE Return(Send(f, Msg("Question2")))]

\* goes on to ask_symptoms with no length stored
handle_cycle_regularity_L392_no_length(ud, f) ==
  [ud |-> ud, f |-> Goto(f, "L436")]

handle_cycle_regularity_L392(ud, f) ==
  [ud |-> [ud EXCEPT ![f.uid] = Put(@, "cycle_length", s0)],
   f |-> Goto(f, "L436")]

\* the values of the last two labels exchanged
length_map_swapped ==
  (sLessThan21 :> s20) @@ (sNormal2135 :> s28) @@ (sMoreThan35 :> s35)
  @@ (sVariableUnsure :> s40)

length_map ==
  (sLessThan21 :> s20) @@ (sNormal2135 :> s28) @@ (sMoreThan35 :> s40)
  @@ (sVariableUnsure :> s35)

handle_cycle_length_stores_first(ud, f) ==
  IF f.text \in DOMAIN length_map
  THEN [ud |-> [ud EXCEPT ![f.uid] = Put(@, "cycle_length", length_map[f.text])],
        f |-> Goto(f, "L436")]
  ELSE IF CanInt(f.text)
  THEN [ud |-> [ud EXCEPT ![f.uid] = Put(@, "cycle_length", str(int(f.text)))],
        f |-> Goto(f, "L436")]
  ELSE [ud |-> [ud EXCEPT ![f.uid] = Put(@, "cycle_length", f.text)],
        f |-> Return(Send(f, Msg("PleaseProvideValidResponse")))]

handle_cycle_length(ud, f) ==
  IF f.text \in DOMAIN length_map
  THEN [ud |-> [ud EXCEPT ![f.uid] = Put(@, "cycle_length", length_map[f.text])],
        f |-> Goto(f, "L436")]
  ELSE IF CanInt(f.text)
  THEN [ud |-> [ud EXCEPT ![f.uid] = Put(@, "cycle_length", str(int(f.text)))],
        f |-> Goto(f, "L436")]
  ELSE [ud |-> ud, f |-> Return(Send(f, Msg("PleaseProvideValidResponse")))]

ask_symptoms(ud, f) ==
  [ud |-> [ud EXCEPT ![f.uid] = Put(@, "stage", "symptoms")],
   f |-> Return(Send(f, Msg("Question3")))]

\* "Done" and "None of these" are handled as any other text
handle_symptoms_L458_no_end(f) ==
  IF f.text \in {sAcne, sFacialHair, sWeightGain, sHairThinning}
  THEN Goto(f, "L461")
  ELSE Return(Send(f, Msg("PleaseSelectFromOptions")))

\* handle_symptoms after the list is initialised: the dispatch on the text
handle_symptoms_L458(f) ==
  IF f.text = sDone \/ f.text = sNoneOfThese THEN Goto(f, "L476")
  ELSE IF f.text \in {sAcne, sFacialHair, sWeightGain, sHairThinning}
  THEN Goto(f, "L461")
  ELSE Return(Send(f, Msg("PleaseSelectFromOptions")))

handle_symptoms_L455(ud, f) ==
  IF "symptoms" \notin DOMAIN ud[f.uid]
  THEN [ud |-> ud, f |-> Goto(f, "L456")]
  ELSE [ud |-> ud, f |-> handle_symptoms_L458(f)]

handle_symptoms_L456(ud, f) ==
  [ud |-> [ud EXCEPT ![f.uid] = Put(@, "symptoms", <<>>)],
   f |-> handle_symptoms_L458(f)]

InList(x, list) ==
  \E i \in 1..Len(list) : list[i] = x

handle_symptoms_L461_no_test(ud, f) ==
  IF "symptoms" \notin DOMAIN ud[f.uid]
  THEN [ud |-> ud, f |-> Raise(f, "KeyError")]
  ELSE [ud |-> ud, f |-> Goto(f, "L462")]

handle_symptoms_L461(ud, f) ==
  IF "symptoms" \notin DOMAIN ud[f.uid]
  THEN [ud |-> ud, f |-> Raise(f, "KeyError")]
  ELSE IF ~InList(f.text, ud[f.uid].symptoms)
  THEN [ud |-> ud, f |-> Goto(f, "L462")]
  ELSE [ud |-> ud,
        f |-> Return(Send(f, [Msg("AlreadySelected") EXCEPT !.arg = f.text]))]

handle_symptoms_L462_overwrites(ud, f) ==
  IF "symptoms" \notin DOMAIN ud[f.uid]
  THEN [ud |-> ud, f |-> Raise(f, "KeyError")]
  ELSE [ud |-> [ud EXCEPT ![f.uid] = Put(@, "symptoms", <<f.text>>)],
        f |-> Return(Send(f, [Msg("Added") EXCEPT !.arg = f.text]))]

handle_symptoms_L462(ud, f) ==
  IF "symptoms" \notin DOMAIN ud[f.uid]
  THEN [ud |-> ud, f |-> Raise(f, "KeyError")]
  ELSE [ud |-> [ud EXCEPT ![f.uid] =
                  Put(@, "symptoms", Append(@.symptoms, f.text))],
        f |-> Return(Send(f, [Msg("Added") EXCEPT !.arg = f.text]))]

\* the report: the score, the category and the echoed inputs
generate_report_L476(ud, f) ==
  LET data == ud[f.uid]
      percentage == calculate_total_score(data)
      risk_category == get_risk_category(percentage)
  IN [ud |-> ud,
      f |-> Goto(Send(f, [Msg("Report") EXCEPT !.percentage = percentage,
                                                !.category = risk_category,
                                                !.data = data]), "L534")]

generate_report_L534_clears_all(ud, f) ==
  [ud |-> [u \in DOMAIN ud |-> EmptyDict], f |-> Return(f)]

generate_report_L534_drops_stage(ud, f) ==
  [ud |-> [ud EXCEPT ![f.uid] = [k \in DOMAIN @ \ {"stage"} |-> @[k]]],
   f |-> Return(f)]

generate_report_L534(ud, f) ==
  [ud |-> [ud EXCEPT ![f.uid] = EmptyDict], f |-> Return(f)]

\* one step of a handler execution
StepFn(ud, f) ==
  CASE f.pc = "L202" -> start(ud, f)
    [] f.pc = "L347" -> start_assessment(ud, f)
    [] f.pc = "L365" -> handle_responses_L365(ud, f)
    [] f.pc = "L369" -> handle_responses_L369(ud, f)
    [] f.pc = "L388" -> handle_cycle_regularity_L388(ud, f)
    [] f.pc = "L389" -> handle_cycle_regularity_L389(ud, f)
    [] f.pc = "L392" -> handle_cycle_regularity_L392(ud, f)
    [] f.pc = "L419" -> handle_cycle_length(ud, f)
    [] f.pc = "L436" -> ask_symptoms(ud, f)
    [] f.pc = "L455" -> handle_symptoms_L455(ud, f)
    [] f.pc = "L456" -> handle_symptoms_L456(ud, f)
    [] f.pc = "L461" -> handle_symptoms_L461(ud, f)
    [] f.pc = "L462" -> handle_symptoms_L462(ud, f)
    [] f.pc = "L476" -> generate_report_L476(ud, f)
    [] f.pc = "L534" -> generate_report_L534(ud, f)

\* a handler execution run to its end with no other handler in between
RECURSIVE Run(_, _)
Run(ud, f) ==
  IF f.pc = "done" THEN [ud |-> ud, f |-> f]
  ELSE CHOOSE end \in {Run(r.ud, r.f) : r \in {StepFn(ud, f)}} : TRUE

\* ------------------------------------------------------------------------
\* State
\* ------------------------------------------------------------------------
VARIABLES
  user_data,   \* the global dict: user id -> that user's record (a dict)
  threads,     \* the handler executions of the bot's worker threads
  out,         \* the handler execution that ended last
  accepted,    \* history: per user, the texts answered with a next question
               \* or an "added" reply in the user's session in progress
  reported,    \* history: the users sent a report since their last /assess
  probe        \* the argument and the result of a direct call of the scorer

vars == <<user_data, threads, out, accepted, reported, probe>>

\* the worker threads of telebot.TeleBot(BOT_TOKEN)
num_threads == 2

Threads == 1..num_threads

\* the chat users
Users == {1, 2}

\* the texts a user sends: the keyboard labels, raw integers and junk
Texts ==
  {sRegular, sIrregular, sNone,
   sLessThan21, sNormal2135, sMoreThan35, sVariableUnsure,
   sAcne, sFacialHair, sWeightGain, sHairThinning, sNoneOfThese, sDone,
   s35, <<"-", "0", "5">>, <<"0">>, <<"3", "5", "d">>}

NoProbe ==
  [fn |-> "", data |-> EmptyDict, len |-> 0, percentage |-> 0, out |-> "",
   called |-> FALSE]

SentKind(msgs, kind) ==
  \E i \in 1..Len(msgs) : msgs[i].kind = kind

\* f is the frame after the step and msgs the replies the step sent; a text
\* handled to its end with no reply, or told to start, found no session
AcceptedAfter(acc, f, msgs) ==
  IF \/ SentKind(msgs, "Welcome") \/ SentKind(msgs, "Question1")
     \/ SentKind(msgs, "PleaseStartWithAssess")
     \/ (f.pc = "done" /\ f.sent = <<>>)
  THEN [acc EXCEPT ![f.uid] = <<>>]
  ELSE IF SentKind(msgs, "Question2") \/ SentKind(msgs, "Question3")
          \/ SentKind(msgs, "Added")
  THEN [acc EXCEPT ![f.uid] = Append(@, f.text)]
  ELSE acc

ReportedAfter(rep, f, msgs) ==
  IF SentKind(msgs, "Report") THEN rep \cup {f.uid}
  ELSE IF SentKind(msgs, "Question1") THEN rep \ {f.uid}
  ELSE rep

Init ==
  /\ user_data = [u \in {} |-> EmptyDict]
  /\ threads = [t \in Threads |-> IdleFrame]
  /\ out = IdleFrame
  /\ accepted = [u \in Users |-> <<>>]
  /\ reported = {}
  /\ probe = NoProbe

\* ------------------------------------------------------------------------
\* Handlers run one at a time: a message is handled to its end in one step
\* ------------------------------------------------------------------------
Handled(op, u, text) ==
  Run(user_data, NewFrame(op, u, text))

CmdStart(u) ==
  LET r == Handled("start", u, <<>>)
  IN /\ user_data' = r.ud
     /\ out' = r.f
     /\ accepted' = AcceptedAfter(accepted, r.f, r.f.sent)
     /\ reported' = ReportedAfter(reported, r.f, r.f.sent)
     /\ UNCHANGED <<threads, probe>>

CmdAssess(u) ==
  LET r == Handled("assess", u, <<>>)
  IN /\ user_data' = r.ud
     /\ out' = r.f
     /\ accepted' = AcceptedAfter(accepted, r.f, r.f.sent)
     /\ reported' = ReportedAfter(reported, r.f, r.f.sent)
     /\ UNCHANGED <<threads, probe>>

TextMessage(u, text) ==
  LET r == Handled("text", u, text)
  IN /\ user_data' = r.ud
     /\ out' = r.f
     /\ accepted' = AcceptedAfter(accepted, r.f, r.f.sent)
     /\ reported' = ReportedAfter(reported, r.f, r.f.sent)
     /\ UNCHANGED <<threads, probe>>

\* the single user of the one-at-a-time specification
SeqUsers == {1}

Next ==
  \/ \E u \in SeqUsers : CmdStart(u)
  \/ \E u \in SeqUsers : CmdAssess(u)
  \/ \E u \in SeqUsers, text \in Texts : TextMessage(u, text)

Spec == Init /\ [][Next]_vars

\* In SpecStages the user answers the first two questions with every kind
\* of text and selects at most one symptom.
StageTexts ==
  {sRegular, sIrregular, sNone,
   sLessThan21, sNormal2135, sMoreThan35, sVariableUnsure,
   s35, <<"-", "0", "5">>, <<"0">>, <<"3", "5", "d">>,
   sAcne, sNoneOfThese, sDone}

NextStages ==
  \/ \E u \in SeqUsers : CmdStart(u)
  \/ \E u \in SeqUsers : CmdAssess(u)
  \/ \E u \in SeqUsers, text \in StageTexts : TextMessage(u, text)

SpecStages == Init /\ [][NextStages]_vars

\* ------------------------------------------------------------------------
\* Handlers run by the worker threads, interleaved at each access to
\* user_data.  In SpecUsers the messages of one user are handled one at a
\* time and the handlers of different users interleave: thread u runs the
\* handlers of user u.
\* ------------------------------------------------------------------------
UserTexts ==
  (1 :> {sIrregular, s35, sAcne, sDone})
  @@ (2 :> {sNone, sRegular, sLessThan21, sFacialHair, sNoneOfThese})

Free(t) ==
  threads[t].pc = "idle"

\* the replies sent by a step: those in the frame after it and not before
NewMsgs(before, after) ==
  SubSeq(after.sent, Len(before.sent) + 1, Len(after.sent))

ReceiveStart(t, u) ==
  /\ Free(t)
  /\ threads' = [threads EXCEPT ![t] = NewFrame("start", u, <<>>)]
  /\ UNCHANGED <<user_data, out, accepted, reported, probe>>

ReceiveAssess(t, u) ==
  /\ Free(t)
  /\ threads' = [threads EXCEPT ![t] = NewFrame("assess", u, <<>>)]
  /\ UNCHANGED <<user_data, out, accepted, reported, probe>>

ReceiveText(t, u, text) ==
  /\ Free(t)
  /\ threads' = [threads EXCEPT ![t] = NewFrame("text", u, text)]
  /\ UNCHANGED <<user_data, out, accepted, reported, probe>>

Step(t) ==
  /\ ~Free(t)
  /\ LET f == threads[t]
         r == StepFn(user_data, f)
     IN /\ user_data' = r.ud
        /\ IF r.f.pc = "done"
           THEN threads' = [threads EXCEPT ![t] = IdleFrame] /\ out' = r.f
           ELSE threads' = [threads EXCEPT ![t] = r.f] /\ UNCHANGED out
        /\ accepted' = AcceptedAfter(accepted, r.f, NewMsgs(f, r.f))
        /\ reported' = ReportedAfter(reported, r.f, NewMsgs(f, r.f))
  /\ UNCHANGED probe

NextUsers ==
  \/ \E u \in Users : ReceiveStart(u, u)
  \/ \E u \in Users : ReceiveAssess(u, u)
  \/ \E u \in Users : \E text \in UserTexts[u] : ReceiveText(u, u, text)
  \/ \E t \in Threads : Step(t)

SpecUsers == Init /\ [][NextUsers]_vars

\* ------------------------------------------------------------------------
\* In SpecRace the messages of one user are handled by both worker threads
\* at once, interleaved at each access to user_data.
\* ------------------------------------------------------------------------
RaceUsers == {1}

RaceTexts == {sNone, sAcne, sDone}

NextRace ==
  \/ \E t \in Threads, u \in RaceUsers : ReceiveStart(t, u)
  \/ \E t \in Threads, u \in RaceUsers : ReceiveAssess(t, u)
  \/ \E t \in Threads, u \in RaceUsers : \E text \in RaceTexts :
       ReceiveText(t, u, text)
  \/ \E t \in Threads : Step(t)

SpecRace == Init /\ [][NextRace]_vars

\* ------------------------------------------------------------------------
\* In SpecPair two users answer the same questions, each in a session of
\* their own, user 1 with a typed length and "Done", user 2 with the length
\* label and "None of these": thread u runs the handlers of user u, one at a time, and the
\* handlers of the two users interleave at each access to user_data.
\* ------------------------------------------------------------------------
PairTexts ==
  (1 :> {sIrregular, s35, sAcne, sFacialHair, sDone})
  @@ (2 :> {sIrregular, sVariableUnsure, sAcne, sFacialHair, sNoneOfThese})

NextPair ==
  \/ \E u \in Users : ReceiveAssess(u, u)
  \/ \E u \in Users : \E text \in PairTexts[u] : ReceiveText(u, u, text)
  \/ \E t \in Threads : Step(t)

SpecPair == Init /\ [][NextPair]_vars

\* ------------------------------------------------------------------------
\* In SpecLive a user runs sessions to their end: /assess is sent only when
\* no session is in progress, /start is not sent, any text is sent at any
\* time, and the user keeps neither an answer a stage accepts nor the word
\* that ends the symptoms stage back for ever.  Handlers run one at a time.
\* ------------------------------------------------------------------------
\* the texts the user of SpecLive sends
LiveTexts ==
  {sRegular, sNone, sNormal2135, <<"3", "5", "d">>, sAcne, sWeightGain, sDone,
   sNoneOfThese}

SessionOpen(u) ==
  /\ u \in DOMAIN user_data
  /\ Get(user_data[u], "stage", "") # ""

LiveAssess(u) ==
  /\ ~SessionOpen(u)
  /\ CmdAssess(u)

\* the user sends an answer that the stage answers with the next question
UserAnswers(u) ==
  /\ SessionOpen(u)
  /\ user_data[u].stage \in {"cycle_regularity", "cycle_length"}
  /\ \E text \in LiveTexts :
       /\ TextMessage(u, text)
       /\ SentKind(out'.sent, "Question2") \/ SentKind(out'.sent, "Question3")

\* the user ends the symptoms stage
UserEnds(u) ==
  /\ SessionOpen(u)
  /\ user_data[u].stage = "symptoms"
  /\ \E text \in {sDone, sNoneOfThese} : TextMessage(u, text)

\* the user sends any text
UserSends(u) ==
  \E text \in LiveTexts : TextMessage(u, text)

NextLive ==
  \/ \E u \in SeqUsers : LiveAssess(u)
  \/ \E u \in SeqUsers : UserAnswers(u)
  \/ \E u \in SeqUsers : UserEnds(u)
  \/ \E u \in SeqUsers : UserSends(u)

UserFairness ==
  \A u \in SeqUsers : WF_vars(UserAnswers(u)) /\ WF_vars(UserEnds(u))

SpecLive == Init /\ [][NextLive]_vars /\ UserFairness

\* ------------------------------------------------------------------------
\* The scoring engine called directly on every record and percentage of a
\* bounded range
\* ------------------------------------------------------------------------
NegLen == 3

MaxLen == 38

MaxPercentage == 100

Regularities == {sRegular, sIrregular, sNone}

Symptoms == {sAcne, sFacialHair, sWeightGain, sHairThinning}

\* the lists of symptoms with no symptom twice
SymptomLists ==
  {l \in UNION {[1..n -> Symptoms] : n \in 0..Cardinality(Symptoms)} :
     \A i, j \in 1..Len(l) : i # j => l[i] # l[j]}

ScoreProbes ==
  {[NoProbe EXCEPT !.fn = "score", !.len = n,
                   !.data = [cycle_regularity |-> r, cycle_length |-> str(n),
                             symptoms |-> l]] :
     r \in Regularities, n \in (0 - NegLen)..MaxLen, l \in SymptomLists}

CategoryProbes ==
  {[NoProbe EXCEPT !.fn = "category", !.percentage = p] :
     p \in 0..(MaxPercentage * Tenths)}

InitScorer ==
  /\ user_data = [u \in {} |-> EmptyDict]
  /\ threads = [t \in Threads |-> IdleFrame]
  /\ out = IdleFrame
  /\ accepted = [u \in Users |-> <<>>]
  /\ reported = {}
  /\ probe \in ScoreProbes \cup CategoryProbes

CallScore ==
  /\ probe.fn = "score" /\ ~probe.called
  /\ probe' = [probe EXCEPT !.percentage = calculate_total_score(probe.data),
                            !.called = TRUE]
  /\ UNCHANGED <<user_data, threads, out, accepted, reported>>

CallCategory ==
  /\ probe.fn = "category" /\ ~probe.called
  /\ probe' = [probe EXCEPT !.out = get_risk_category(probe.percentage),
                            !.called = TRUE]
  /\ UNCHANGED <<user_data, threads, out, accepted, reported>>

NextScorer ==
  \/ CallScore
  \/ CallCategory

SpecScorer == InitScorer /\ [][NextScorer]_vars

\* ------------------------------------------------------------------------
\* Properties of the one-at-a-time specification.  After a step of Spec,
\* out is the handler execution that the step ran.
\* ------------------------------------------------------------------------
Min(a, b) ==
  IF a <= b THEN a ELSE b

StageOf(d) ==
  Get(d, "stage", "")

\* the step ran handle_responses
TextStep ==
  out'.op = "text"

\* C1: handle_responses for a user with no entry in user_data replies
\* "Please start with /assess command" and nothing else, raises no error
\* and leaves user_data as it was (no entry is created).
C1_NoEntryNoSession ==
  [][(TextStep /\ out'.uid \notin DOMAIN user_data)
       => /\ out'.sent = <<Msg("PleaseStartWithAssess")>>
          /\ out'.err = ""
          /\ user_data' = user_data]_vars

C1_Witness ==
  /\ out.op = "text"
  /\ out.uid \notin DOMAIN user_data
  /\ out.sent = <<Msg("PleaseStartWithAssess")>>

\* C2: once a report was sent to a user, every text of that user handled
\* before a new /assess is answered "Please start with /assess command".
C2_AfterReportNoSession ==
  [][(TextStep /\ out'.uid \in reported)
       => SentKind(out'.sent, "PleaseStartWithAssess")]_vars

\* the value a length answer stands for: a keyboard label or a raw integer
LengthAnswerValue(text) ==
  CASE text = sLessThan21 -> 20
    [] text = sNormal2135 -> 28
    [] text = sMoreThan35 -> 40
    [] text = sVariableUnsure -> 35
    [] OTHER -> int(text)

\* the record made of exactly the answers acc accepted in a session
RecordOfAnswers(acc) ==
  IF acc[1] = sNone
  THEN [cycle_regularity |-> sNone, cycle_length |-> s0,
        symptoms |-> SubSeq(acc, 2, Len(acc))]
  ELSE [cycle_regularity |-> acc[1],
        cycle_length |-> str(LengthAnswerValue(acc[2])),
        symptoms |-> SubSeq(acc, 3, Len(acc))]

\* C3: a session that ends with a terminal token sends exactly one reply,
\* the report; its score is calculate_total_score of the answers accepted
\* since /assess, its category is get_risk_category of that score, and the
\* user's record is then empty; Irregular, "35", Acne gives 43.0, Medium.
C3_SessionReport ==
  (out.op = "text" /\ SentKind(out.sent, "Report"))
    => LET u == out.uid
           m == out.sent[1]
           acc == accepted[u]
       IN /\ Len(out.sent) = 1
          /\ out.text \in {sDone, sNoneOfThese}
          /\ Len(acc) >= (IF acc[1] = sNone THEN 1 ELSE 2)
          /\ m.percentage = calculate_total_score(RecordOfAnswers(acc))
          /\ m.category = get_risk_category(m.percentage)
          /\ user_data[u] = EmptyDict
          /\ (acc = <<sIrregular, s35, sAcne>>
                => m.percentage = 43 * Tenths /\ m.category = "Medium")

C3_Witness ==
  /\ out.op = "text"
  /\ out.text = sDone
  /\ SentKind(out.sent, "Report")
  /\ accepted[out.uid] = <<sIrregular, s35, sAcne>>
  /\ out.sent[1].percentage = 43 * Tenths
  /\ user_data[out.uid] = EmptyDict

\* the weights as the specification's table states them
ClaimRegularityWeight(r) ==
  CASE r = sRegular -> 0 [] r = sIrregular -> 35 [] r = sNone -> 40

ClaimLengthWeight(r, n) ==
  IF r = sNone THEN 30
  ELSE IF n < 21 THEN 15
  ELSE IF n > 35 THEN 25
  ELSE 0

ClaimSymptomsWeight(set) ==
  (IF sAcne \in set THEN 8 ELSE 0) + (IF sFacialHair \in set THEN 12 ELSE 0)
  + (IF sWeightGain \in set THEN 10 ELSE 0)
  + (IF sHairThinning \in set THEN 10 ELSE 0)

ListSet(l) ==
  {l[i] : i \in 1..Len(l)}

\* C4: for every regularity, every length of -NegLen..MaxLen and every set
\* of symptoms, calculate_total_score is min(100, R + L + S), where L is 30
\* under regularity None whatever the length.
C4_ScoreFormula ==
  (probe.fn = "score" /\ probe.called)
    => probe.percentage =
         Tenths * Min(100,
                      ClaimRegularityWeight(probe.data.cycle_regularity)
                      + ClaimLengthWeight(probe.data.cycle_regularity, probe.len)
                      + ClaimSymptomsWeight(ListSet(probe.data.symptoms)))

C4_Witness ==
  /\ probe.fn = "score" /\ probe.called
  /\ probe.data.cycle_regularity = sNone
  /\ probe.len = 0 - 1
  /\ probe.data.symptoms = <<sFacialHair>>
  /\ probe.percentage = 82 * Tenths

\* C5: the score of every report sent and calculate_total_score of every
\* record in user_data lie in 0..100.
C5_ScoreRange ==
  /\ \A u \in DOMAIN user_data :
       /\ calculate_total_score(user_data[u]) >= 0
       /\ calculate_total_score(user_data[u]) <= 100 * Tenths
  /\ \A t \in Threads : \A i \in 1..Len(threads[t].sent) :
       threads[t].sent[i].kind = "Report"
         => /\ threads[t].sent[i].percentage >= 0
            /\ threads[t].sent[i].percentage <= 100 * Tenths

\* a report clamped to 100 from a larger sum of weights
C5_Witness ==
  /\ SentKind(out.sent, "Report")
  /\ out.sent[1].percentage = 100 * Tenths
  /\ RawScore(out.sent[1].data) > 100

\* C6: get_risk_category is Low exactly below 30, Medium exactly on 30..70
\* and High exactly above 70, for every percentage of 0..MaxPercentage.
C6_Category ==
  (probe.fn = "category" /\ probe.called)
    => /\ probe.out = "Low" <=> probe.percentage < 30 * Tenths
       /\ probe.out = "Medium" <=> (30 * Tenths <= probe.percentage
                                    /\ probe.percentage <= 70 * Tenths)
       /\ probe.out = "High" <=> probe.percentage > 70 * Tenths
       /\ probe.percentage \in {30 * Tenths, 70 * Tenths} => probe.out = "Medium"

C6_Witness ==
  /\ probe.fn = "category" /\ probe.called
  /\ probe.percentage = 70 * Tenths
  /\ probe.out = "Medium"

\* the position of a record in the order of the stages; a record with no
\* stage (after the report) is past the three questions
StageRank(d) ==
  CASE StageOf(d) = "cycle_regularity" -> 1
    [] StageOf(d) = "cycle_length" -> 2
    [] StageOf(d) = "symptoms" -> 3
    [] OTHER -> 4

\* C7: a text never moves a record to an earlier stage, and it moves it
\* by more than one stage only from cycle_regularity to symptoms on "None".
C7_StageForward ==
  [][TextStep
       => \A u \in DOMAIN user_data :
            LET a == StageRank(user_data[u])
                b == StageRank(user_data'[u])
            IN \/ b = a
               \/ b = a + 1
               \/ (a = 1 /\ b = 3 /\ out'.text = sNone)]_vars

C7_Witness ==
  /\ out.op = "text" /\ out.text = sNone
  /\ out.uid \in DOMAIN user_data
  /\ StageOf(user_data[out.uid]) = "symptoms"
  /\ accepted[out.uid] = <<sNone>>

\* the answers a stage accepts
AcceptedAt(stage, text) ==
  CASE stage = "cycle_regularity" -> text \in Regularities
    [] stage = "cycle_length" ->
         \/ text \in {sLessThan21, sNormal2135, sMoreThan35, sVariableUnsure}
         \/ CanInt(text)
    [] stage = "symptoms" -> text \in Symptoms \cup {sDone, sNoneOfThese}

Reprompt(stage) ==
  CASE stage = "cycle_regularity" -> Msg("PleaseSelectFromOptionsProvided")
    [] stage = "cycle_length" -> Msg("PleaseProvideValidResponse")
    [] stage = "symptoms" -> Msg("PleaseSelectFromOptions")

\* C8: at each of the three stages a text that the stage does not accept is
\* answered by the stage's re-prompt alone and leaves the stage, the stored
\* regularity, the stored length and the symptom collection as they were.
C8_RejectedKeepsRecord ==
  [][\A u \in DOMAIN user_data :
       (/\ TextStep /\ out'.uid = u
        /\ StageOf(user_data[u]) \in {"cycle_regularity", "cycle_length", "symptoms"}
        /\ ~AcceptedAt(StageOf(user_data[u]), out'.text))
         => /\ out'.sent = <<Reprompt(StageOf(user_data[u]))>>
            /\ StageOf(user_data'[u]) = StageOf(user_data[u])
            /\ Get(user_data'[u], "cycle_regularity", <<>>)
                 = Get(user_data[u], "cycle_regularity", <<>>)
            /\ Get(user_data'[u], "cycle_length", <<>>)
                 = Get(user_data[u], "cycle_length", <<>>)
            /\ Get(user_data'[u], "symptoms", <<>>)
                 = Get(user_data[u], "symptoms", <<>>)]_vars

C8_Witness ==
  /\ out.op = "text"
  /\ out.sent = <<Msg("PleaseProvideValidResponse")>>
  /\ out.uid \in DOMAIN user_data
  /\ StageOf(user_data[out.uid]) = "cycle_length"
  /\ ~CanInt(out.text)

\* the record of user u after the text is handled with nothing in between
AfterText(ud, u, text) ==
  Run(ud, NewFrame("text", u, text)).ud

\* C9: at stage symptoms a symptom already in the list is answered
\* "already selected", which is not the "added" reply of a first selection,
\* and leaves the record as it was; selecting a symptom twice in a row
\* gives the record that selecting it once gives.
C9_Reselect ==
  /\ [][\A u \in DOMAIN user_data :
          (/\ TextStep /\ out'.uid = u
           /\ StageOf(user_data[u]) = "symptoms"
           /\ out'.text \in Symptoms)
            => IF InList(out'.text, Get(user_data[u], "symptoms", <<>>))
               THEN /\ user_data' = user_data
                    /\ out'.sent
                         = <<[Msg("AlreadySelected") EXCEPT !.arg = out'.text]>>
               ELSE /\ out'.sent
                         = <<[Msg("Added") EXCEPT !.arg = out'.text]>>
                    /\ Msg("Added").kind # Msg("AlreadySelected").kind]_vars
  /\ [](\A u \in DOMAIN user_data : \A x \in Symptoms :
          StageOf(user_data[u]) = "symptoms"
            => AfterText(AfterText(user_data, u, x), u, x)
                 = AfterText(user_data, u, x))

C9_Witness ==
  /\ out.op = "text"
  /\ out.sent = <<[Msg("AlreadySelected") EXCEPT !.arg = sAcne]>>
  /\ out.uid \in DOMAIN user_data
  /\ user_data[out.uid].symptoms = <<sFacialHair, sAcne>>

\* ------------------------------------------------------------------------
\* Properties of the interleaved handlers of two users (SpecUsers)
\* ------------------------------------------------------------------------
\* the report a thread has sent and not yet followed by the reset of line 534
PendingReport(t) ==
  threads[t].sent[Len(threads[t].sent)]

\* C10: a step of a handler of user A leaves every other user's entry in
\* user_data as it was, whatever the interleaving, and the report sent to
\* user B echoes and scores exactly the answers accepted from B since B's
\* /assess.
C10_UsersIndependent ==
  /\ [][\A t \in Threads :
          (~Free(t) /\ threads'[t] # threads[t])
            => \A b \in Users \ {threads[t].uid} :
                 /\ b \in DOMAIN user_data' <=> b \in DOMAIN user_data
                 /\ b \in DOMAIN user_data => user_data'[b] = user_data[b]]_vars
  /\ [](\A t \in Threads :
          threads[t].pc = "L534"
            => LET b == threads[t].uid
                   m == PendingReport(t)
                   rec == RecordOfAnswers(accepted[b])
               IN /\ m.kind = "Report"
                  /\ m.data.cycle_regularity = rec.cycle_regularity
                  /\ m.data.cycle_length = rec.cycle_length
                  /\ m.data.symptoms = rec.symptoms
                  /\ m.percentage = calculate_total_score(rec)
                  /\ m.category = get_risk_category(m.percentage))

\* user 2's report is out while a handler of user 1 is between the
\* membership test and the append, both users having answered
C10_Witness ==
  /\ threads[1].pc = "L462" /\ threads[1].uid = 1
  /\ threads[2].pc = "L534" /\ threads[2].uid = 2
  /\ PendingReport(2).kind = "Report"
  /\ accepted[1] = <<sIrregular, s35>>
  /\ accepted[2] = <<sRegular, sLessThan21, sFacialHair>>
  /\ PendingReport(2).percentage = 27 * Tenths

\* the step ran start_assessment
AssessStep ==
  out'.op = "assess"

\* C11: whatever the user's record was (absent, empty, or at any stage with
\* answers), after /assess it holds the stage cycle_regularity and nothing
\* else: no regularity, no length and no symptoms.
C11_AssessResets ==
  [][AssessStep
       => /\ out'.uid \in DOMAIN user_data'
          /\ user_data'[out'.uid] = [stage |-> "cycle_regularity"]
          /\ out'.sent = <<Msg("Question1")>>]_vars

\* /assess has just run and the record holds the stage alone
C11_Witness ==
  /\ out.op = "assess"
  /\ out.uid \in DOMAIN user_data
  /\ user_data[out.uid] = [stage |-> "cycle_regularity"]
  /\ DOMAIN user_data[out.uid] = {"stage"}

InProgressStages ==
  {"cycle_regularity", "cycle_length", "symptoms"}

\* C12: only /assess adds a user's entry to user_data, and between handler
\* executions every entry present carries one of the three stages.
C12_EntryOnlyInProgress ==
  /\ [][\A u \in Users :
          (u \notin DOMAIN user_data /\ u \in DOMAIN user_data')
            => out'.op = "assess"]_vars
  /\ [](\A u \in DOMAIN user_data : StageOf(user_data[u]) \in InProgressStages)

\* C13: every text handled gets exactly one reply: a re-prompt, the next
\* question (or the reply to a symptom), the report or the notice to start.
C13_OneReply ==
  [][TextStep
       => /\ Len(out'.sent) = 1
          /\ out'.sent[1].kind \in
               {"PleaseSelectFromOptionsProvided", "PleaseProvideValidResponse",
                "PleaseSelectFromOptions", "Question2", "Question3", "Added",
                "AlreadySelected", "Report", "PleaseStartWithAssess"}]_vars

\* C12 as amended: only /start and /assess add a user's entry to user_data,
\* and between handler executions every entry present is either empty (as
\* /start and the report leave it) or carries one of the three stages.
C12_EntryEmptyOrInProgress ==
  /\ [][\A u \in Users :
          (u \notin DOMAIN user_data /\ u \in DOMAIN user_data')
            => (out'.op \in {"start", "assess"} /\ out'.uid = u)]_vars
  /\ [](\A u \in DOMAIN user_data :
          \/ user_data[u] = EmptyDict
          \/ StageOf(user_data[u]) \in InProgressStages)

\* the entry is present and empty right after the report
C12_Witness ==
  /\ out.op = "text"
  /\ SentKind(out.sent, "Report")
  /\ out.uid \in DOMAIN user_data
  /\ user_data[out.uid] = EmptyDict

\* ------------------------------------------------------------------------
\* Properties of the handlers of one user run by both threads (SpecRace)
\* ------------------------------------------------------------------------
\* C14: no handler execution ends in an error: every access to
\* user_data[user_id] and to its fields finds the key present, also when a
\* /start, /assess or report step of the same user runs between the steps
\* of another handler.
C14_NoMissingKey ==
  /\ out.err = ""
  /\ \A t \in Threads : threads[t].err = ""

NoDuplicate(list) ==
  \A i, j \in 1..Len(list) : i # j => list[i] # list[j]

\* C19: no symptom occurs twice in a record's symptom list, nor in the
\* list a report is scored from, also when two handlers of the same user
\* interleave between the membership test and the append.
C19_NoSymptomTwice ==
  /\ \A u \in DOMAIN user_data :
       NoDuplicate(Get(user_data[u], "symptoms", <<>>))
  /\ \A t \in Threads : \A i \in 1..Len(threads[t].sent) :
       NoDuplicate(Get(threads[t].sent[i].data, "symptoms", <<>>))

\* ------------------------------------------------------------------------
\* Properties of two sessions run side by side (SpecPair)
\* ------------------------------------------------------------------------
\* C15: when the reports of two sessions are out side by side and the two
\* sessions accepted the same regularity, the same length and the same set
\* of symptoms, the two reports carry the same score and the same category,
\* whatever the order of the symptoms, the re-selections, the rejected
\* texts and the terminal token of each session.
C15_SameAnswersSameReport ==
  (threads[1].pc = "L534" /\ threads[2].pc = "L534")
    => LET a == RecordOfAnswers(accepted[1])
           b == RecordOfAnswers(accepted[2])
       IN (/\ a.cycle_regularity = b.cycle_regularity
           /\ a.cycle_length = b.cycle_length
           /\ ListSet(a.symptoms) = ListSet(b.symptoms))
            => /\ PendingReport(1).kind = "Report"
               /\ PendingReport(2).kind = "Report"
               /\ PendingReport(1).percentage = PendingReport(2).percentage
               /\ PendingReport(1).category = PendingReport(2).category

\* both reports are out: user 1 typed 35, chose Acne then Facial hair and
\* ended with "Done"; user 2 chose the unsure label, Facial hair then Acne,
\* re-selected Acne and ended with "None of these"
C15_Witness ==
  /\ threads[1].pc = "L534" /\ threads[1].text = sDone
  /\ threads[2].pc = "L534" /\ threads[2].text = sNoneOfThese
  /\ accepted[1] = <<sIrregular, s35, sAcne, sFacialHair>>
  /\ accepted[2] = <<sIrregular, sVariableUnsure, sFacialHair, sAcne>>
  /\ out.uid = 2
  /\ out.sent = <<[Msg("AlreadySelected") EXCEPT !.arg = sAcne]>>
  /\ PendingReport(1).percentage = PendingReport(2).percentage
  /\ PendingReport(1).percentage > 0

\* ------------------------------------------------------------------------
\* Properties of the stages, handlers run one at a time (SpecStages)
\* ------------------------------------------------------------------------
\* C16: at stage cycle_regularity the answer None stores None, stores the
\* length "0" and leaves the stage at symptoms with the symptoms question
\* as the only reply; Regular and Irregular store the answer, store no
\* length and leave the stage at cycle_length with the length question as
\* the only reply.  The length question is sent for Regular and Irregular
\* only, and no record between two handlers has regularity None together
\* with stage cycle_length.
C16_RegularityStage ==
  /\ [][\A u \in DOMAIN user_data :
          (/\ TextStep /\ out'.uid = u
           /\ StageOf(user_data[u]) = "cycle_regularity"
           /\ out'.text \in {sRegular, sIrregular, sNone})
            => IF out'.text = sNone
               THEN /\ user_data'[u]
                         = [cycle_regularity |-> sNone, cycle_length |-> s0,
                            stage |-> "symptoms"]
                    /\ out'.sent = <<Msg("Question3")>>
               ELSE /\ user_data'[u]
                         = [cycle_regularity |-> out'.text,
                            stage |-> "cycle_length"]
                    /\ "cycle_length" \notin DOMAIN user_data'[u]
                    /\ out'.sent = <<Msg("Question2")>>]_vars
  /\ [][(TextStep /\ SentKind(out'.sent, "Question2"))
          => out'.text \in {sRegular, sIrregular}]_vars
  /\ [](\A u \in DOMAIN user_data :
          ~(/\ Get(user_data[u], "cycle_regularity", <<>>) = sNone
            /\ StageOf(user_data[u]) = "cycle_length"))

\* None was answered to the first question: the length is "0" and the
\* symptoms question is out
C16_Witness ==
  /\ out.op = "text" /\ out.text = sNone
  /\ out.sent = <<Msg("Question3")>>
  /\ out.uid \in DOMAIN user_data
  /\ user_data[out.uid]
       = [cycle_regularity |-> sNone, cycle_length |-> s0, stage |-> "symptoms"]

\* the length each text of Texts stands for, for the texts that are a
\* keyboard label of the length question or an integer
ExpectedLength ==
  (sLessThan21 :> 20) @@ (sNormal2135 :> 28) @@ (sMoreThan35 :> 40)
  @@ (sVariableUnsure :> 35) @@ (s35 :> 35) @@ (<<"-", "0", "5">> :> 0 - 5)
  @@ (<<"0">> :> 0)

\* C17: at stage cycle_length the four labels store 20, 28, 40 and 35 and a
\* text that is an integer stores that integer; the stage is then symptoms,
\* the stored length is an integer and the only reply is the symptoms
\* question.  Every other text is answered "Please provide a valid
\* response." and leaves the stage and the stored length as they were.
C17_LengthStage ==
  [][\A u \in DOMAIN user_data :
       (/\ TextStep /\ out'.uid = u
        /\ StageOf(user_data[u]) = "cycle_length")
         => IF out'.text \in DOMAIN ExpectedLength
            THEN /\ "cycle_length" \in DOMAIN user_data'[u]
                 /\ CanInt(user_data'[u].cycle_length)
                 /\ int(user_data'[u].cycle_length) = ExpectedLength[out'.text]
                 /\ StageOf(user_data'[u]) = "symptoms"
                 /\ out'.sent = <<Msg("Question3")>>
            ELSE /\ out'.sent = <<Msg("PleaseProvideValidResponse")>>
                 /\ StageOf(user_data'[u]) = "cycle_length"
                 /\ DOMAIN user_data'[u] = DOMAIN user_data[u]
                 /\ Get(user_data'[u], "cycle_length", <<>>)
                      = Get(user_data[u], "cycle_length", <<>>)]_vars

\* "-05" was answered to the length question: the length stored is "-5"
C17_Witness ==
  /\ out.op = "text" /\ out.text = <<"-", "0", "5">>
  /\ out.sent = <<Msg("Question3")>>
  /\ out.uid \in DOMAIN user_data
  /\ user_data[out.uid]
       = [cycle_regularity |-> sIrregular, cycle_length |-> <<"-", "5">>,
          stage |-> "symptoms"]

\* C18: with handlers run one at a time, a report is computed only by a
\* handler of the text "Done" or "None of these" that found the record at
\* stage symptoms with a regularity and a length stored, and the record the
\* report is scored from has both, so no default of the scorer is used for
\* them.
C18_ScoredOnlyWhenComplete ==
  [][\A i \in 1..Len(out'.sent) :
       out'.sent[i].kind = "Report"
         => /\ out'.op = "text"
            /\ out'.text \in {sDone, sNoneOfThese}
            /\ out'.uid \in DOMAIN user_data
            /\ StageOf(user_data[out'.uid]) = "symptoms"
            /\ {"cycle_regularity", "cycle_length"}
                 \subseteq DOMAIN user_data[out'.uid]
            /\ {"cycle_regularity", "cycle_length"}
                 \subseteq DOMAIN out'.sent[i].data
            /\ out'.sent[i].data.cycle_regularity \in Regularities
            /\ CanInt(out'.sent[i].data.cycle_length)]_vars

\* "None of these" ended a session that stored Regular and 28
C18_Witness ==
  /\ out.op = "text" /\ out.text = sNoneOfThese
  /\ Len(out.sent) = 1 /\ out.sent[1].kind = "Report"
  /\ out.sent[1].data.cycle_regularity = sRegular
  /\ out.sent[1].data.cycle_length = s28
  /\ out.sent[1].data.stage = "symptoms"

\* ------------------------------------------------------------------------
\* Progress of a session (SpecLive)
\* ------------------------------------------------------------------------
\* the replies to the text handled with nothing in between
ReplyTo(ud, u, text) ==
  Run(ud, NewFrame("text", u, text)).f.sent

\* C20: in every state a session can be in, also after rejected texts, some
\* text is answered with the next question at stages cycle_regularity and
\* cycle_length and with the report at stage symptoms; and if the user
\* keeps sending an answer the stage accepts and then a terminal token,
\* with no /start and no /assess in between, a session at its first stage
\* leads to its report being sent and its record being empty.
C20_SessionEnds ==
  /\ [](\A u \in DOMAIN user_data :
          /\ StageOf(user_data[u]) = "cycle_regularity"
               => \E text \in LiveTexts :
                    ReplyTo(user_data, u, text) \in {<<Msg("Question2")>>,
                                                     <<Msg("Question3")>>}
          /\ StageOf(user_data[u]) = "cycle_length"
               => \E text \in LiveTexts :
                    ReplyTo(user_data, u, text) = <<Msg("Question3")>>
          /\ StageOf(user_data[u]) = "symptoms"
               => \E text \in LiveTexts :
                    SentKind(ReplyTo(user_data, u, text), "Report"))
  /\ \A u \in SeqUsers :
       (u \in DOMAIN user_data /\ StageOf(user_data[u]) = "cycle_regularity")
         ~> (/\ out.uid = u /\ SentKind(out.sent, "Report")
             /\ u \in DOMAIN user_data /\ user_data[u] = EmptyDict)

\* a session of three accepted answers, with a rejected text at the length
\* stage, has ended with "Done": the report is out and the record is empty
C20_Witness ==
  /\ out.op = "text" /\ out.text = sDone
  /\ SentKind(out.sent, "Report")
  /\ accepted[out.uid] = <<sRegular, sNormal2135, sWeightGain>>
  /\ out.uid \in DOMAIN user_data
  /\ user_data[out.uid] = EmptyDict

====
